---- MODULE Spec2Model ----
(***************************************************************************)
(* Model of the time-boxed input collection of tetris-cli:                 *)
(*   - TurnTimer / TurnTimerSubscriber (src/turn_timer/turn_timer.rs)      *)
(*   - timed_user_input / run_user_input_loop (src/ui.rs)                  *)
(* The Notifier/Subscriber traits (turn_timer/observer.rs: subscribe and   *)
(* notify) are not part of the sources at hand; they are modelled from     *)
(* section 4.1 of the specification.                                       *)
(***************************************************************************)
EXTENDS Integers, Sequences, FiniteSets, TLC

VARIABLES
    timer_duration,   \* TurnTimer.timer_duration (whole seconds)
    timerState,       \* "new" | "sleeping" | "notifying" | "done" | "dropped"
    remaining,        \* seconds the timer thread still has to sleep
    notifyIdx,        \* position of notify() in TurnTimer.subscribers
    subscribers,      \* TurnTimer.subscribers: sequence of channel ids (senders)
    chanBuf,          \* chanBuf[c]: messages buffered in channel c
    rx,               \* rx[c]: where the receiver of c is
    sent,             \* sent[c]: number of Sender::send calls made on c
    timer_status,     \* TurnTimerSubscriber.timer_status, per subscriber
    subscription,     \* TurnTimerSubscriber.subscription, per subscriber
    lastRet,          \* value returned by the latest get_timer_status() call
    loopPc,           \* position of the input context
    loopState,        \* state of the Input Collection Loop
    loopSub,          \* subscriber moved into timed_user_input
    statusQueries,    \* get_timer_status() calls made by the loop
    polls,            \* get_command() calls made by the loop
    collected,        \* commands returned as Ok(Some(command))
    sendCalls,        \* commands handed to command_dispatcher.send
    dispatched,       \* commands the dispatch channel accepted
    dispatchRxAlive,  \* is the dispatch channel's receiver still there
    rawMode,          \* terminal raw mode
    statusOutputs,    \* TestTurnTimerSubscriber.outputs (scripted statuses)
    collectorOutputs, \* TestCommandCollector.outputs (scripted results)
    statusScript,     \* the statuses a test scripted, as written
    collectorScript   \* the collector results a test scripted, as written

vars == << timer_duration, timerState, remaining, notifyIdx, subscribers,
           chanBuf, rx, sent, timer_status, subscription, lastRet,
           loopPc, loopState, loopSub, statusQueries, polls, collected,
           sendCalls, dispatched, dispatchRxAlive, rawMode,
           statusOutputs, collectorOutputs, statusScript, collectorScript >>

timerVars == << timer_duration, timerState, remaining, notifyIdx, subscribers >>
chanVars == << chanBuf, rx, sent >>
subVars == << timer_status, subscription, lastRet >>
loopVars == << loopPc, loopState, loopSub, statusQueries, polls, collected,
                sendCalls, dispatched, rawMode >>
testVars == << statusOutputs, collectorOutputs, statusScript, collectorScript >>

---------------------------------------------------------------------------
(* Bounds *)
MaxDuration == 1
MaxSubscriptions == 2
MaxCommands == 2
MaxCount == 3

(* Values *)
TimerNotComplete == "TimerNotComplete"
TimerComplete == "TimerComplete"
TimerStatus == { TimerNotComplete, TimerComplete }
MoveCommand == { "Left", "Down", "Right", "Clockwise", "Anticlockwise" }
CommandInputs == { "Left", "Down" }
None == 0

Channels == 1 .. MaxSubscriptions
\* the subscribers the composition root builds
Subscribers == { 1, 2 }

\* a counter that stops counting at MaxCount
Inc(n) == IF n < MaxCount THEN n + 1 ELSE n

---------------------------------------------------------------------------
(* std::sync::mpsc *)

\* the timer's senders are dropped with the timer value
SenderAlive == timerState \in { "new", "sleeping", "notifying" }

\* try_recv that reports a hung-up sender before it looks at the buffer
try_recv_DisconnectFirst(c) ==
    IF ~SenderAlive THEN << "Err", "Disconnected" >>
    ELSE IF chanBuf[c] # << >> THEN << "Ok", Head(chanBuf[c]) >>
    ELSE << "Err", "Empty" >>

\* Receiver::try_recv
try_recv(c) ==
    IF chanBuf[c] # << >> THEN << "Ok", Head(chanBuf[c]) >>
    ELSE IF SenderAlive THEN << "Err", "Empty" >>
    ELSE << "Err", "Disconnected" >>

\* what try_recv leaves in the channel
AfterRecv(c) == IF chanBuf[c] # << >> THEN Tail(chanBuf[c]) ELSE chanBuf[c]

\* Sender::send succeeds while the receiver exists
SendOk(c) == rx[c] # "dropped"

---------------------------------------------------------------------------
(* TurnTimer *)

Init ==
    /\ timer_duration \in 0 .. MaxDuration
    /\ timerState = "new"
    /\ remaining = 0
    /\ notifyIdx = 1
    /\ subscribers = << >>
    /\ chanBuf = [c \in Channels |-> << >>]
    /\ rx = [c \in Channels |-> "none"]
    /\ sent = [c \in Channels |-> 0]
    /\ timer_status = [s \in Subscribers |-> TimerNotComplete]
    /\ subscription = [s \in Subscribers |-> None]
    /\ lastRet = [s \in Subscribers |-> "NoCall"]
    /\ loopPc = "idle"
    /\ loopState = "NotStarted"
    /\ loopSub = None
    /\ statusQueries = 0
    /\ polls = 0
    /\ collected = << >>
    /\ sendCalls = << >>
    /\ dispatched = << >>
    /\ dispatchRxAlive = TRUE
    /\ rawMode = FALSE
    /\ statusOutputs = << >>
    /\ collectorOutputs = << >>
    /\ statusScript = << >>
    /\ collectorScript = << >>

\* the composition root is one thread: it is blocked inside timed_user_input
\* (thread::scope joins) from the call on
RootFree == loopPc = "idle"

\* a run_timer that borrows the timer: the root can subscribe while it sleeps
CanSubscribe_Started == timerState \in { "new", "sleeping" }

\* subscribe needs the TurnTimer value, which run_timer(self) moves into the thread
CanSubscribe == timerState = "new"

\* Notifier::subscribe: a fresh channel, the sender is kept, the receiver returned
Subscribe ==
    /\ RootFree
    /\ CanSubscribe
    /\ Len(subscribers) < MaxSubscriptions
    /\ LET c == Len(subscribers) + 1 IN
        /\ subscribers' = Append(subscribers, c)
        /\ rx' = [rx EXCEPT ![c] = "held"]
    /\ UNCHANGED << timer_duration, timerState, remaining, notifyIdx, chanBuf, sent,
                    subVars, loopVars, dispatchRxAlive, testVars >>

\* run_timer(self): the timer value moves into the spawned thread
RunTimer ==
    /\ RootFree
    /\ timerState = "new"
    /\ timerState' = "sleeping"
    /\ remaining' = timer_duration
    /\ UNCHANGED << timer_duration, notifyIdx, subscribers, chanVars, subVars,
                    loopVars, dispatchRxAlive, testVars >>

\* the timer value goes out of scope without run_timer()
DropTimer ==
    /\ RootFree
    /\ timerState = "new"
    /\ timerState' = "dropped"
    /\ UNCHANGED << timer_duration, remaining, notifyIdx, subscribers, chanVars,
                    subVars, loopVars, dispatchRxAlive, testVars >>

\* thread::sleep(Duration::from_secs(timer_duration)), one second at a time
Sleep ==
    /\ timerState = "sleeping"
    /\ remaining > 0
    /\ remaining' = remaining - 1
    /\ UNCHANGED << timer_duration, timerState, notifyIdx, subscribers, chanVars,
                    subVars, loopVars, dispatchRxAlive, testVars >>

\* the sleep has elapsed: the thread enters self.notify(&TimerComplete)
StartNotify ==
    /\ timerState = "sleeping"
    /\ remaining = 0
    /\ timerState' = "notifying"
    /\ notifyIdx' = 1
    /\ UNCHANGED << timer_duration, remaining, subscribers, chanVars, subVars,
                    loopVars, dispatchRxAlive, testVars >>

\* a timer thread that goes back to sleep and fires again
AfterNotify_Refire == "sleeping"

\* what the timer thread does once notify() has gone through every sender
AfterNotify == "done"

\* Notifier::notify: one send per retained sender; a failed send is swallowed
NotifyStep ==
    /\ timerState = "notifying"
    /\ notifyIdx <= Len(subscribers)
    /\ LET c == subscribers[notifyIdx] IN
        /\ sent' = [sent EXCEPT ![c] = @ + 1]
        /\ chanBuf' = IF SendOk(c)
                      THEN [chanBuf EXCEPT ![c] = Append(@, TimerComplete)]
                      ELSE chanBuf
    /\ notifyIdx' = notifyIdx + 1
    /\ UNCHANGED << timer_duration, timerState, remaining, subscribers, rx,
                    subVars, loopVars, dispatchRxAlive, testVars >>

\* notify() has returned: the closure ends, the timer and its senders are dropped
TimerThreadExit ==
    /\ timerState = "notifying"
    /\ notifyIdx > Len(subscribers)
    /\ timerState' = AfterNotify
    /\ remaining' = IF AfterNotify = "sleeping" THEN timer_duration ELSE remaining
    /\ UNCHANGED << timer_duration, notifyIdx, subscribers, chanVars, subVars,
                    loopVars, dispatchRxAlive, testVars >>

---------------------------------------------------------------------------
(* TurnTimerSubscriber *)

\* does update() get a TimerComplete out of the attached receiver
ReceivesComplete(s) ==
    /\ subscription[s] # None
    /\ try_recv(subscription[s]) = << "Ok", TimerComplete >>

\* update() that takes a hung-up channel for a completed timer
update_DisconnectIsComplete(s) ==
    IF subscription[s] # None /\ try_recv(subscription[s]) # << "Err", "Empty" >>
    THEN TimerComplete
    ELSE timer_status[s]

\* update() that takes anything but a received TimerNotComplete for completion
update_EmptyIsComplete(s) ==
    IF subscription[s] # None
       /\ try_recv(subscription[s]) # << "Ok", TimerNotComplete >>
    THEN TimerComplete
    ELSE timer_status[s]

\* Subscriber::update: self.timer_status once update() has run
update(s) == IF ReceivesComplete(s) THEN TimerComplete ELSE timer_status[s]

\* get_timer_status() that runs update() on every call, cached status or not
TouchesReceiver_Always(s) == subscription[s] # None

\* get_timer_status reaches the receiver only while the cache is TimerNotComplete
TouchesReceiver(s) == timer_status[s] = TimerNotComplete /\ subscription[s] # None

\* self.timer_status once get_timer_status() has returned
CacheAfterGet(s) == IF timer_status[s] = TimerComplete THEN TimerComplete ELSE update(s)

\* get_timer_status() without the cache: it reports what this poll received
get_timer_status_NoMemo(s) ==
    IF ReceivesComplete(s) THEN TimerComplete ELSE TimerNotComplete

\* get_timer_status() that clones the status before update() runs
get_timer_status_Stale(s) == timer_status[s]

\* the value get_timer_status() returns
get_timer_status(s) ==
    IF timer_status[s] = TimerComplete THEN TimerComplete ELSE update(s)

\* the effect of one get_timer_status() call on subscriber s
CallGetTimerStatus(s) ==
    /\ timer_status' = [timer_status EXCEPT ![s] = CacheAfterGet(s)]
    /\ lastRet' = [lastRet EXCEPT ![s] = get_timer_status(s)]
    /\ chanBuf' = IF TouchesReceiver(s)
                  THEN [chanBuf EXCEPT ![subscription[s]] = AfterRecv(subscription[s])]
                  ELSE chanBuf

\* a subscriber the composition root holds and can call
Held(s) == RootFree /\ s # loopSub

\* get_timer_status() called outside the input loop
PollStatus(s) ==
    /\ Held(s)
    /\ CallGetTimerStatus(s)
    /\ UNCHANGED << timerVars, rx, sent, subscription, loopVars, dispatchRxAlive, testVars >>

\* add_subscription that keeps a receiver already attached and drops the new one
add_subscription_KeepsFirst(s, c) ==
    /\ Held(s)
    /\ rx[c] = "held"
    /\ subscription' = IF subscription[s] = None
                       THEN [subscription EXCEPT ![s] = c]
                       ELSE subscription
    /\ rx' = [rx EXCEPT ![c] = IF subscription[s] = None THEN "attached" ELSE "dropped"]
    /\ UNCHANGED << timerVars, chanBuf, sent, timer_status, lastRet,
                    loopVars, dispatchRxAlive, testVars >>

\* Subscriber::add_subscription: the receiver replaces the one attached before
add_subscription(s, c) ==
    /\ Held(s)
    /\ rx[c] = "held"
    /\ subscription' = [subscription EXCEPT ![s] = c]
    /\ rx' = [k \in Channels |->
                IF k = c THEN "attached"
                ELSE IF k = subscription[s] THEN "dropped"
                ELSE rx[k]]
    /\ UNCHANGED << timerVars, chanBuf, sent, timer_status, lastRet,
                    loopVars, dispatchRxAlive, testVars >>

---------------------------------------------------------------------------
(* timed_user_input and run_user_input_loop *)

\* what CommandCollector::get_command can return
CollectorResults == { "None", "Err" } \cup CommandInputs

Terminal == { "Exited-TimerComplete", "Exited-InvalidInput" }

\* timed_user_input: the subscriber and the dispatcher move into a scoped thread
timed_user_input(s) ==
    /\ loopPc = "idle"
    /\ loopSub' = s
    /\ loopPc' = "spawned"
    /\ UNCHANGED << timerVars, chanVars, subVars, loopState, statusQueries, polls,
                    collected, sendCalls, dispatched, rawMode, dispatchRxAlive, testVars >>

\* the thread takes the raw mode guard, builds the collector and enters the loop
EnterLoop ==
    /\ loopPc = "spawned"
    /\ rawMode' = TRUE
    /\ loopPc' = "status"
    /\ loopState' = "Polling"
    /\ UNCHANGED << timerVars, chanVars, subVars, loopSub, statusQueries, polls,
                    collected, sendCalls, dispatched, dispatchRxAlive, testVars >>

\* a loop whose TimerComplete arm does not return
StatusArm_NoReturn(status) == "collect"

\* a loop that matches the two timer statuses the wrong way round
StatusArm_Inverted(status) == IF status = TimerComplete THEN "collect" ELSE "returned"

\* the arm of the outer match taken for a timer status
StatusArm(status) == IF status = TimerComplete THEN "returned" ELSE "collect"

\* top of an iteration: match turn_timer_subscriber.get_timer_status()
LoopCheckStatus ==
    /\ loopPc = "status"
    /\ CallGetTimerStatus(loopSub)
    /\ statusQueries' = Inc(statusQueries)
    /\ loopPc' = StatusArm(get_timer_status(loopSub))
    /\ loopState' = IF get_timer_status(loopSub) = TimerComplete
                    THEN "Exited-TimerComplete"
                    ELSE loopState
    /\ UNCHANGED << timerVars, rx, sent, subscription, loopSub, polls, collected,
                    sendCalls, dispatched, rawMode, dispatchRxAlive, testVars >>

\* a loop that sends a command again when it repeats the one before
Forwarded_Twice(r) ==
    IF r \in MoveCommand
    THEN IF collected # << >> /\ collected[Len(collected)] = r
         THEN << r, r >>
         ELSE << r >>
    ELSE << >>

\* the commands the loop hands to command_dispatcher.send for a collector result
Forwarded(r) == IF r \in MoveCommand THEN << r >> ELSE << >>

\* a loop that gives up when the send fails
CollectArm_AbortOnSendError(r, sendOk) ==
    IF r = "Err" \/ (r \in MoveCommand /\ ~sendOk) THEN "returned" ELSE "status"

\* a loop whose invalid-input arm does not return
CollectArm_NoReturnOnErr(r, sendOk) == "status"

\* a loop that also returns when no command is available
CollectArm_ReturnOnNone(r, sendOk) ==
    IF r \in { "Err", "None" } THEN "returned" ELSE "status"

\* where the loop goes after a collector result; sendOk: did the send go through
CollectArm(r, sendOk) == IF r = "Err" THEN "returned" ELSE "status"

\* TimerNotComplete arm: match command_collector.get_command()
LoopCollect(r) ==
    /\ loopPc = "collect"
    /\ r \in MoveCommand => Len(collected) < MaxCommands
    /\ polls' = Inc(polls)
    /\ collected' = IF r \in MoveCommand THEN Append(collected, r) ELSE collected
    /\ sendCalls' = sendCalls \o Forwarded(r)
    /\ dispatched' = IF dispatchRxAlive THEN dispatched \o Forwarded(r) ELSE dispatched
    /\ loopPc' = CollectArm(r, dispatchRxAlive)
    /\ loopState' = IF r = "Err" THEN "Exited-InvalidInput" ELSE loopState
    /\ UNCHANGED << timerVars, chanVars, subVars, loopSub, statusQueries, rawMode,
                    dispatchRxAlive, testVars >>

\* the closure ends: the guard, the subscriber and the dispatcher are dropped
InputThreadExit ==
    /\ loopPc = "returned"
    /\ rawMode' = FALSE
    /\ rx' = [k \in Channels |-> IF k = subscription[loopSub] THEN "dropped" ELSE rx[k]]
    /\ loopPc' = "exited"
    /\ UNCHANGED << timerVars, chanBuf, sent, subVars, loopState, loopSub,
                    statusQueries, polls, collected, sendCalls, dispatched,
                    dispatchRxAlive, testVars >>

\* a timed_user_input that spawns a detached thread and returns without joining
TimedUserInputReturn_Detached ==
    /\ loopPc \in { "spawned", "status", "collect", "returned", "exited" }
    /\ loopPc' = "joined"
    /\ UNCHANGED << timerVars, chanVars, subVars, loopState, loopSub, statusQueries,
                    polls, collected, sendCalls, dispatched, rawMode, dispatchRxAlive, testVars >>

\* thread::scope joins the thread and timed_user_input returns
TimedUserInputReturn ==
    /\ loopPc = "exited"
    /\ loopPc' = "joined"
    /\ UNCHANGED << timerVars, chanVars, subVars, loopState, loopSub, statusQueries,
                    polls, collected, sendCalls, dispatched, rawMode, dispatchRxAlive, testVars >>

\* the composition root, which consumes the dispatch channel, drops its receiver
DropDispatchReceiver ==
    /\ RootFree
    /\ dispatchRxAlive
    /\ dispatchRxAlive' = FALSE
    /\ UNCHANGED << timerVars, chanVars, subVars, loopVars, testVars >>

---------------------------------------------------------------------------
TimerThread == Sleep \/ StartNotify \/ NotifyStep \/ TimerThreadExit

InputThread ==
    \/ EnterLoop
    \/ LoopCheckStatus
    \/ \E r \in CollectorResults : LoopCollect(r)
    \/ InputThreadExit
    \/ TimedUserInputReturn

Next ==
    \/ Subscribe
    \/ RunTimer
    \/ DropTimer
    \/ Sleep
    \/ StartNotify
    \/ NotifyStep
    \/ TimerThreadExit
    \/ \E s \in Subscribers : PollStatus(s)
    \/ \E s \in Subscribers, c \in Channels : add_subscription(s, c)
    \/ \E s \in Subscribers : timed_user_input(s)
    \/ EnterLoop
    \/ LoopCheckStatus
    \/ \E r \in CollectorResults : LoopCollect(r)
    \/ InputThreadExit
    \/ TimedUserInputReturn
    \/ DropDispatchReceiver

Spec == Init /\ [][Next]_vars

\* the composition as the program runs it: the root wires the timer to the
\* subscribers and starts the threads, and never polls a subscriber itself
WiredNext ==
    \/ Subscribe
    \/ RunTimer
    \/ DropTimer
    \/ Sleep
    \/ StartNotify
    \/ NotifyStep
    \/ TimerThreadExit
    \/ \E s \in Subscribers, c \in Channels : add_subscription(s, c)
    \/ \E s \in Subscribers : timed_user_input(s)
    \/ EnterLoop
    \/ LoopCheckStatus
    \/ \E r \in CollectorResults : LoopCollect(r)
    \/ InputThreadExit
    \/ TimedUserInputReturn
    \/ DropDispatchReceiver

\* the scheduler runs the timer thread and the input thread whenever they can step
FairSpec ==
    Init /\ [][WiredNext]_vars /\ WF_vars(TimerThread) /\ WF_vars(InputThread)

---------------------------------------------------------------------------
(* Abnormal termination of the input context *)

\* CliCommandCollector::get_command panics (poll or read fails, expect)
LoopPanics ==
    /\ loopPc = "collect"
    /\ polls' = Inc(polls)
    /\ loopPc' = "unwinding"
    /\ UNCHANGED << timerVars, chanVars, subVars, loopState, loopSub, statusQueries,
                    collected, sendCalls, dispatched, rawMode, dispatchRxAlive,
                    testVars >>

\* an input context that enabled raw mode without a guard: unwinding skips the reset
UnwindExit_LeavesRawMode ==
    /\ loopPc = "unwinding"
    /\ rx' = [k \in Channels |-> IF k = subscription[loopSub] THEN "dropped" ELSE rx[k]]
    /\ loopPc' = "panicked"
    /\ UNCHANGED << timerVars, chanBuf, sent, subVars, loopState, loopSub,
                    statusQueries, polls, collected, sendCalls, dispatched, rawMode,
                    dispatchRxAlive, testVars >>

\* the panic unwinds the closure: _guard is dropped, and so are the captured values
UnwindExit ==
    /\ loopPc = "unwinding"
    /\ rawMode' = FALSE
    /\ rx' = [k \in Channels |-> IF k = subscription[loopSub] THEN "dropped" ELSE rx[k]]
    /\ loopPc' = "panicked"
    /\ UNCHANGED << timerVars, chanBuf, sent, subVars, loopState, loopSub,
                    statusQueries, polls, collected, sendCalls, dispatched,
                    dispatchRxAlive, testVars >>

\* thread::scope joins the panicked thread and panics in the caller:
\* timed_user_input unwinds instead of returning
ScopePanics ==
    /\ loopPc = "panicked"
    /\ loopPc' = "propagated"
    /\ UNCHANGED << timerVars, chanVars, subVars, loopState, loopSub, statusQueries,
                    polls, collected, sendCalls, dispatched, rawMode, dispatchRxAlive,
                    testVars >>

PanicNext ==
    \/ Next
    \/ LoopPanics
    \/ UnwindExit
    \/ ScopePanics

PanicSpec == Init /\ [][PanicNext]_vars

---------------------------------------------------------------------------
(* run_user_input_loop on the test doubles of ui.rs *)

\* sequences over S of length at most n
SeqsUpTo(S, n) == UNION { [1 .. k -> S] : k \in 0 .. n }

\* Vec::pop takes the last element
Last(v) == v[Len(v)]
Front(v) == SubSeq(v, 1, Len(v) - 1)

\* TestTurnTimerSubscriber::get_timer_status: outputs.pop().unwrap_or(TimerComplete)
TestStatus == IF statusOutputs = << >> THEN TimerComplete ELSE Last(statusOutputs)

\* TestCommandCollector::get_command: outputs.pop(), Ok(None) once it is empty
TestResult == IF collectorOutputs = << >> THEN "None" ELSE Last(collectorOutputs)

\* a test builds the two doubles and calls run_user_input_loop directly
ScriptInit ==
    /\ timer_duration = 0
    /\ timerState = "new"
    /\ remaining = 0
    /\ notifyIdx = 1
    /\ subscribers = << >>
    /\ chanBuf = [c \in Channels |-> << >>]
    /\ rx = [c \in Channels |-> "none"]
    /\ sent = [c \in Channels |-> 0]
    /\ timer_status = [s \in Subscribers |-> TimerNotComplete]
    /\ subscription = [s \in Subscribers |-> None]
    /\ lastRet = [s \in Subscribers |-> "NoCall"]
    /\ loopPc = "status"
    /\ loopState = "Polling"
    /\ loopSub = 1
    /\ statusQueries = 0
    /\ polls = 0
    /\ collected = << >>
    /\ sendCalls = << >>
    /\ dispatched = << >>
    /\ dispatchRxAlive \in BOOLEAN
    /\ rawMode = FALSE
    /\ statusScript \in SeqsUpTo(TimerStatus, MaxCount)
    /\ collectorScript \in SeqsUpTo(CollectorResults, MaxCommands)
    /\ statusOutputs = statusScript
    /\ collectorOutputs = collectorScript

\* top of an iteration, the status coming from the scripted subscriber
TestLoopCheckStatus ==
    /\ loopPc = "status"
    /\ statusOutputs' = IF statusOutputs = << >> THEN << >> ELSE Front(statusOutputs)
    /\ lastRet' = [lastRet EXCEPT ![loopSub] = TestStatus]
    /\ statusQueries' = Inc(statusQueries)
    /\ loopPc' = StatusArm(TestStatus)
    /\ loopState' = IF TestStatus = TimerComplete
                    THEN "Exited-TimerComplete"
                    ELSE loopState
    /\ UNCHANGED << timerVars, chanVars, timer_status, subscription, loopSub, polls,
                    collected, sendCalls, dispatched, rawMode, dispatchRxAlive,
                    collectorOutputs, statusScript, collectorScript >>

\* TimerNotComplete arm, the result coming from the scripted collector
TestLoopCollect ==
    /\ loopPc = "collect"
    /\ collectorOutputs' =
            IF collectorOutputs = << >> THEN << >> ELSE Front(collectorOutputs)
    /\ polls' = Inc(polls)
    /\ collected' = IF TestResult \in MoveCommand
                    THEN Append(collected, TestResult)
                    ELSE collected
    /\ sendCalls' = sendCalls \o Forwarded(TestResult)
    /\ dispatched' = IF dispatchRxAlive
                     THEN dispatched \o Forwarded(TestResult)
                     ELSE dispatched
    /\ loopPc' = CollectArm(TestResult, dispatchRxAlive)
    /\ loopState' = IF TestResult = "Err" THEN "Exited-InvalidInput" ELSE loopState
    /\ UNCHANGED << timerVars, chanVars, subVars, loopSub, statusQueries, rawMode,
                    dispatchRxAlive, statusOutputs, statusScript, collectorScript >>

ScriptNext == TestLoopCheckStatus \/ TestLoopCollect

ScriptSpec == ScriptInit /\ [][ScriptNext]_vars

---------------------------------------------------------------------------
(* Properties of the timer and its subscribers *)

\* this step is a get_timer_status() call on subscriber s
IsCall(s) == PollStatus(s) \/ (loopSub = s /\ LoopCheckStatus)

\* subscriber s holds a receiver
Attached(s) == subscription[s] # None /\ rx[subscription[s]] = "attached"

\* the timer thread has passed its sleep and sent at least one notification
TimerFired ==
    /\ timerState \in { "notifying", "done" }
    /\ remaining = 0
    /\ \E c \in Channels : sent[c] > 0

\* C1: once get_timer_status() has returned TimerComplete on a subscriber, every
\* later call on it returns TimerComplete, whatever the timer does and whatever
\* receiver is attached in between; the cached status never goes back.
C1_StatusMonotonic ==
    [][\A s \in Subscribers :
        /\ lastRet[s] = TimerComplete => lastRet'[s] = TimerComplete
        /\ timer_status[s] = TimerComplete => timer_status'[s] = TimerComplete]_vars

\* a subscriber that returned TimerComplete and now holds a second, silent receiver
C1_Witness ==
    \E s \in Subscribers :
        /\ lastRet[s] = TimerComplete
        /\ Attached(s)
        /\ sent[subscription[s]] = 0
        /\ chanBuf[subscription[s]] = << >>

\* C2: a get_timer_status() call on a subscriber attached to one of the timer's
\* receivers that begins after the timer thread has sent on that channel
\* returns TimerComplete.
C2_SeenAtNextPoll ==
    [][\A s \in Subscribers :
        (subscription[s] # None /\ sent[subscription[s]] > 0 /\ IsCall(s))
            => lastRet'[s] = TimerComplete]_vars

\* a call made after the timer thread has finished returned TimerComplete
C2_Witness ==
    \E s \in Subscribers :
        /\ timerState = "done"
        /\ subscription[s] # None
        /\ sent[subscription[s]] = 1
        /\ lastRet[s] = TimerComplete

\* C3: get_timer_status() returns TimerComplete only after the timer's sleep has
\* elapsed and it has sent its notification; a call that turns the status to
\* TimerComplete does so on a channel the timer has already sent on.
C3_NoFalsePositive ==
    /\ [](\A s \in Subscribers :
            (lastRet[s] = TimerComplete \/ timer_status[s] = TimerComplete)
                => TimerFired)
    /\ [][\A s \in Subscribers :
            (IsCall(s) /\ timer_status[s] = TimerNotComplete
                       /\ lastRet'[s] = TimerComplete)
                => (subscription[s] # None /\ sent[subscription[s]] > 0)]_vars

\* TimerComplete observed while the timer thread is still inside notify()
C3_Witness ==
    \E s \in Subscribers :
        /\ lastRet[s] = TimerComplete
        /\ timerState = "notifying"
        /\ notifyIdx <= Len(subscribers)

\* two subscriptions, each attached to its own subscriber, on a timer of duration 0
TwoSubscribersZeroDuration ==
    /\ timer_duration = 0
    /\ Len(subscribers) = 2
    /\ \A s \in Subscribers : Attached(s)

\* C4 as stated: once run_timer() has returned, no get_timer_status() call on
\* either subscriber returns TimerNotComplete.
C4_AsStated ==
    [][\A s \in Subscribers :
        (TwoSubscribersZeroDuration /\ timerState \in { "sleeping", "notifying", "done" }
            /\ IsCall(s))
            => lastRet'[s] = TimerComplete]_vars

\* C4 (amended): with duration 0 and two attached subscriptions the timer thread
\* never sleeps, and once that thread has finished notify() each of the two
\* channels has been sent exactly one TimerComplete, which its subscriber has
\* either received or still finds buffered, and no get_timer_status() call on
\* either subscriber returns TimerNotComplete.
C4_ZeroDurationDelivers ==
    /\ [](TwoSubscribersZeroDuration =>
            /\ remaining = 0
            /\ timerState = "done" =>
                \A s \in Subscribers :
                    /\ sent[subscription[s]] = 1
                    /\ \/ timer_status[s] = TimerComplete
                       \/ chanBuf[subscription[s]] = << TimerComplete >>)
    /\ [][\A s \in Subscribers :
            (TwoSubscribersZeroDuration /\ timerState = "done" /\ IsCall(s))
                => lastRet'[s] = TimerComplete]_vars

\* both subscribers have been polled after the zero-duration timer finished
C4_Witness ==
    /\ TwoSubscribersZeroDuration
    /\ timerState = "done"
    /\ \A s \in Subscribers : lastRet[s] = TimerComplete

\* C5: at most one message is ever sent on a subscription channel, and a timer
\* value that has been started or dropped is never startable again.
C5_AtMostOneNotification ==
    /\ [](\A c \in Channels : sent[c] <= 1 /\ Len(chanBuf[c]) <= 1)
    /\ [][timerState # "new" => timerState' # "new"]_vars

\* the timer has run to its end with two subscriptions, one message each
C5_Witness ==
    /\ timerState = "done"
    /\ Len(subscribers) >= 2
    /\ \A c \in 1 .. Len(subscribers) : sent[c] = 1

---------------------------------------------------------------------------
(* Properties of the Input Collection Loop *)

\* run_user_input_loop has returned
LoopReturned == loopPc \in { "returned", "exited", "joined" }

\* this step is a get_command() call
IsPoll == \E r \in CollectorResults : LoopCollect(r)

\* sends the dispatch channel refused
SendFailures == Len(sendCalls) - Len(dispatched)

IsPrefix(a, b) == Len(a) <= Len(b) /\ SubSeq(b, 1, Len(a)) = a

\* C6: the loop has returned exactly when it is in one of the two terminal
\* states, the terminal state matches what ended it, and from then on the state
\* is kept and there is no status query, no collector poll and no send.
C6_OneTerminalState ==
    /\ [](/\ LoopReturned <=> loopState \in Terminal
          /\ loopState = "Exited-TimerComplete" => lastRet[loopSub] = TimerComplete
          /\ loopState = "Exited-InvalidInput" => lastRet[loopSub] = TimerNotComplete)
    /\ [][(loopState \in Terminal) =>
            (/\ loopState' = loopState
             /\ ~LoopCheckStatus
             /\ ~IsPoll
             /\ UNCHANGED << statusQueries, polls, collected, sendCalls, dispatched >>)]_vars

\* an invocation that ended on invalid input after polling, and has been joined
C6_Witness ==
    /\ loopPc = "joined"
    /\ loopState = "Exited-InvalidInput"
    /\ polls >= 2

\* C7: the commands handed to the dispatch channel are at every point the
\* commands the collector has returned, in the same order; while the consumer
\* holds its receiver the channel has accepted all of them.
C7_ForwardedInOrder ==
    /\ sendCalls = collected
    /\ IsPrefix(dispatched, collected)
    /\ dispatchRxAlive => dispatched = collected

\* two different commands were collected and both went through
C7_Witness ==
    /\ Len(collected) = 2
    /\ collected[1] # collected[2]
    /\ dispatched = collected

\* C8: a send that fails leaves the loop in Polling, at the top of its next
\* iteration; after failed sends an invalid result still ends the loop in
\* Exited-InvalidInput and a TimerComplete status in Exited-TimerComplete.
C8_SendFailureContinues ==
    /\ [][(Len(sendCalls') > Len(sendCalls) /\ dispatched' = dispatched)
            => (loopPc' = "status" /\ loopState' = "Polling")]_vars
    /\ [][(SendFailures > 0 /\ LoopCollect("Err"))
            => (loopPc' = "returned" /\ loopState' = "Exited-InvalidInput")]_vars
    /\ [][(SendFailures > 0 /\ LoopCheckStatus /\ lastRet'[loopSub] = TimerComplete)
            => (loopPc' = "returned" /\ loopState' = "Exited-TimerComplete")]_vars

\* the receiver was gone before the first send, and the loop ended on invalid input
C8_Witness ==
    /\ SendFailures > 0
    /\ dispatched = << >>
    /\ loopState = "Exited-InvalidInput"

\* the loop runs on a subscriber attached to a receiver of the started timer
LoopOnStartedTimer ==
    /\ loopPc \in { "status", "collect" }
    /\ timerState \in { "sleeping", "notifying", "done" }
    /\ subscription[loopSub] # None

\* C9: once run_timer() has been called on the timer the loop's subscriber is
\* attached to, a fairly scheduled loop eventually returns.
C9_LoopTerminates == LoopOnStartedTimer ~> LoopReturned

\* the loop saw TimerNotComplete first and later ended on TimerComplete
C9_Witness ==
    /\ loopState = "Exited-TimerComplete"
    /\ statusQueries >= 2
    /\ timerState = "done"

\* C10: get_command() is called only in an iteration whose status check
\* returned TimerNotComplete; once a check has returned TimerComplete there is
\* no further poll or send; a loop whose first check returns TimerComplete
\* ends with no poll and no command forwarded.
C10_PollsOnlyWhenNotComplete ==
    /\ [][IsPoll => lastRet[loopSub] = TimerNotComplete]_vars
    /\ [][(loopSub # None /\ lastRet[loopSub] = TimerComplete)
            => (~IsPoll /\ UNCHANGED << polls, collected, sendCalls, dispatched >>)]_vars
    /\ [](statusQueries < MaxCount =>
            polls = statusQueries -
                (IF loopPc = "collect" \/ loopState = "Exited-TimerComplete"
                 THEN 1 ELSE 0))
    /\ []((loopState = "Exited-TimerComplete" /\ statusQueries = 1)
            => (polls = 0 /\ collected = << >> /\ sendCalls = << >>))

\* TimerComplete on the very first check
C10_Witness ==
    /\ loopState = "Exited-TimerComplete"
    /\ statusQueries = 1
    /\ polls = 0

---------------------------------------------------------------------------
(* Properties of the loop on scripted statuses and results *)

\* the values popped from a scripted Vec so far, in the order they were popped
Consumed(script, outputs) ==
    [i \in 1 .. (Len(script) - Len(outputs)) |-> script[Len(script) + 1 - i]]

ConsumedStatuses == Consumed(statusScript, statusOutputs)
ConsumedResults == Consumed(collectorScript, collectorOutputs)

\* the commands among collector results
Commands(results) == SelectSeq(results, LAMBDA r : r \in MoveCommand)

Min(a, b) == IF a <= b THEN a ELSE b

\* C11: the first Err from get_command() ends the loop in Exited-InvalidInput in
\* that very step and forwards nothing; every status seen before was
\* TimerNotComplete, the commands returned before the Err have been sent, and
\* the statuses and results scripted after that point stay unconsumed.
C11_InvalidInputExits ==
    /\ [][(TestLoopCollect /\ TestResult = "Err") =>
            (/\ loopPc' = "returned"
             /\ loopState' = "Exited-InvalidInput"
             /\ sendCalls' = sendCalls
             /\ dispatched' = dispatched
             /\ statusOutputs' = statusOutputs)]_vars
    /\ [](loopState = "Exited-InvalidInput" =>
            /\ \A i \in DOMAIN ConsumedStatuses : ConsumedStatuses[i] = TimerNotComplete
            /\ Len(ConsumedStatuses) = Len(ConsumedResults)
            /\ ConsumedResults # << >>
            /\ \A i \in DOMAIN ConsumedResults :
                    ConsumedResults[i] = "Err" <=> i = Len(ConsumedResults)
            /\ sendCalls = Commands(ConsumedResults)
            /\ collected = sendCalls)
    /\ [][(loopState = "Exited-InvalidInput") =>
            (/\ ~TestLoopCheckStatus
             /\ ~TestLoopCollect
             /\ UNCHANGED << statusOutputs, collectorOutputs, sendCalls >>)]_vars

\* a command was forwarded, then Err ended the loop with a status left unconsumed
C11_Witness ==
    /\ loopState = "Exited-InvalidInput"
    /\ collected # << >>
    /\ statusOutputs # << >>
    /\ statusOutputs = SubSeq(statusScript, 1, Len(statusOutputs))

\* the collector script holds no invalid result
NoErrScripted == \A i \in DOMAIN collectorScript : collectorScript[i] # "Err"

\* k: the TimerNotComplete values the scripted subscriber yields before its
\* first TimerComplete (an exhausted script yields TimerComplete)
LeadingNotComplete ==
    LET completeAt == { i \in DOMAIN statusScript : statusScript[i] = TimerComplete }
    IN  IF completeAt = { }
        THEN Len(statusScript)
        ELSE Len(statusScript) - (CHOOSE i \in completeAt : \A j \in completeAt : j <= i)

\* C12: with no invalid result scripted, a command or a no-command result keeps
\* the loop in Polling; the loop makes k+1 status queries and k get_command()
\* calls, ends in Exited-TimerComplete and leaves the statuses scripted after
\* the first TimerComplete unconsumed.
C12_ValidInputContinues ==
    /\ [][(NoErrScripted /\ TestLoopCollect) =>
            (loopPc' = "status" /\ loopState' = "Polling")]_vars
    /\ [](NoErrScripted =>
            /\ loopState # "Exited-InvalidInput"
            /\ polls <= LeadingNotComplete
            /\ statusQueries <= Min(LeadingNotComplete + 1, MaxCount)
            /\ loopState = "Exited-TimerComplete" =>
                /\ polls = LeadingNotComplete
                /\ statusQueries = Min(LeadingNotComplete + 1, MaxCount)
                /\ Len(ConsumedStatuses) = Min(LeadingNotComplete + 1, Len(statusScript))
                /\ statusOutputs = SubSeq(statusScript, 1, Len(statusOutputs)))

\* the loop polled, forwarded a command and stopped at the first TimerComplete,
\* with a later status still in the script
C12_Witness ==
    /\ NoErrScripted
    /\ loopState = "Exited-TimerComplete"
    /\ polls >= 1
    /\ polls = LeadingNotComplete
    /\ collected # << >>
    /\ statusOutputs # << >>

---------------------------------------------------------------------------
(* Properties of the input context *)

\* the positions at which the thread holds the ScopedRawMode guard
GuardHeld == loopPc \in { "status", "collect", "returned", "unwinding" }

\* C13: raw mode is on exactly while the input context holds its guard: from
\* before the first status check, through every status check and collector
\* poll, until the context ends; it is off again after a return from either
\* terminal state and after a panic, hence whenever timed_user_input has returned.
C13_RawModeScoped ==
    /\ [](rawMode <=> GuardHeld)
    /\ [](loopPc \in { "exited", "joined", "panicked", "propagated" } => ~rawMode)
    /\ [][(LoopCheckStatus \/ IsPoll \/ LoopPanics) => rawMode]_vars

\* the collector panicked after a poll and the panic reached the caller, raw mode off
C13_Witness ==
    /\ loopPc = "propagated"
    /\ polls >= 2
    /\ ~rawMode

\* a Complete notification has been sent to the loop's subscriber: it is cached,
\* or it went out on the channel the subscriber reads
NotifiedLoopSub ==
    \/ timer_status[loopSub] = TimerComplete
    \/ subscription[loopSub] # None /\ sent[subscription[loopSub]] > 0

\* C14: while no Complete notification has been sent to the loop's subscriber,
\* the only step that takes the loop out of Polling is a collector poll that
\* returns an invalid result; any other step, a refused send included, leaves it
\* Polling and running, and a Polling loop can always take its next step,
\* whatever the collector returns (commands are counted up to MaxCommands).
C14_RunsIndefinitely ==
    /\ [][(loopState = "Polling" /\ ~NotifiedLoopSub /\ ~LoopCollect("Err"))
            => (loopState' = "Polling" /\ loopPc' \in { "status", "collect" })]_vars
    /\ []((loopState = "Polling" /\ loopPc = "status") => ENABLED LoopCheckStatus)
    /\ []((loopState = "Polling" /\ loopPc = "collect")
            => \A r \in CollectorResults :
                  (r \in MoveCommand => Len(collected) < MaxCommands)
                      => ENABLED LoopCollect(r))

\* the timer was never started, sends have been refused, and the loop is still
\* Polling after MaxCount status checks and polls
C14_Witness ==
    /\ loopState = "Polling"
    /\ timerState \in { "new", "dropped" }
    /\ ~NotifiedLoopSub
    /\ statusQueries = MaxCount
    /\ polls = MaxCount
    /\ SendFailures > 0
    /\ Len(collected) = MaxCommands

---------------------------------------------------------------------------
(* Properties of subscription *)

\* the channels whose sender the timer retains
Retained == { subscribers[i] : i \in 1 .. Len(subscribers) }

\* C15: once run_timer() has been called the timer's senders no longer change
\* and subscribe() cannot be called; Complete is sent only on senders
\* retained at that moment, at most once each, and once the timer thread has
\* finished it has been sent exactly once on each of them and on no other.
C15_SubscribeBeforeStart ==
    /\ [][(timerState # "new") => (subscribers' = subscribers)]_vars
    /\ []((timerState # "new") => ~ENABLED Subscribe)
    /\ [](\A c \in Channels : sent[c] <= 1 /\ (sent[c] = 1 => c \in Retained))
    /\ []((timerState = "done")
            => \A c \in Channels : sent[c] = IF c \in Retained THEN 1 ELSE 0)

\* the timer thread has finished with two senders retained, each sent to once
C15_Witness ==
    /\ timerState = "done"
    /\ Len(subscribers) >= 2
    /\ \A c \in Retained : sent[c] = 1

\* C16: a get_timer_status() call on a subscriber whose cached status is
\* TimerComplete returns TimerComplete and changes neither the cached status
\* nor the contents of any channel; so no call made after one that returned
\* TimerComplete receives anything.
C16_Memoized ==
    /\ [][\A s \in Subscribers :
            (IsCall(s) /\ timer_status[s] = TimerComplete)
                => (/\ lastRet'[s] = TimerComplete
                    /\ timer_status' = timer_status
                    /\ chanBuf' = chanBuf)]_vars
    /\ [][\A s \in Subscribers :
            (IsCall(s) /\ lastRet[s] = TimerComplete) => (chanBuf' = chanBuf)]_vars

\* the loop's only status check returned TimerComplete from the cache: the
\* notification buffered on the receiver attached since is still there
C16_Witness ==
    /\ loopState = "Exited-TimerComplete"
    /\ statusQueries = 1
    /\ subscription[loopSub] # None
    /\ chanBuf[subscription[loopSub]] = << TimerComplete >>

\* the state TurnTimerSubscriber::new() builds
Fresh(s) == timer_status[s] = TimerNotComplete /\ subscription[s] = None

\* nothing is there for subscriber s to receive
NothingToReceive(s) == subscription[s] = None \/ chanBuf[subscription[s]] = << >>

\* C17: every subscriber starts with TimerNotComplete cached and no receiver;
\* a get_timer_status() call on a subscriber that caches TimerNotComplete and
\* has no receiver, or a receiver with an empty channel, returns
\* TimerNotComplete and leaves the cache TimerNotComplete; the call is always
\* possible, it never waits for the channel.
C17_FreshAndEmpty ==
    /\ \A s \in Subscribers : Fresh(s)
    /\ [][\A s \in Subscribers :
            (IsCall(s) /\ timer_status[s] = TimerNotComplete /\ NothingToReceive(s))
                => (/\ lastRet'[s] = TimerNotComplete
                    /\ timer_status'[s] = TimerNotComplete)]_vars
    /\ [](\A s \in Subscribers : Held(s) => ENABLED PollStatus(s))

\* after the timer has fired, one subscriber was called with no receiver and
\* another on an attached receiver nothing was sent to: both said TimerNotComplete
C17_Witness ==
    /\ TimerFired
    /\ \E s1, s2 \in Subscribers :
        /\ Fresh(s1)
        /\ lastRet[s1] = TimerNotComplete
        /\ Attached(s2)
        /\ chanBuf[subscription[s2]] = << >>
        /\ timer_status[s2] = TimerNotComplete
        /\ lastRet[s2] = TimerNotComplete

\* C18: a receiver is attached to exactly one subscriber, which holds no
\* other; add_subscription makes its receiver the subscriber's only one, drops
\* the one attached before and leaves every cached status unchanged; a
\* get_timer_status() call reads no channel but the one attached to its
\* subscriber, and a dropped receiver stays dropped with its channel never read
\* again, so a notification left on a replaced channel is never observed.
C18_LastWriterWins ==
    /\ [](\A c \in Channels :
            (rx[c] = "attached") => \E s \in Subscribers :
                /\ subscription[s] = c
                /\ \A s2 \in Subscribers \ { s } : subscription[s2] # c)
    /\ [][\A s \in Subscribers, c \in Channels :
            add_subscription(s, c)
                => (/\ timer_status' = timer_status
                    /\ subscription'[s] = c
                    /\ rx'[c] = "attached"
                    /\ (subscription[s] # None) => (rx'[subscription[s]] = "dropped"))]_vars
    /\ [][\A s \in Subscribers :
            IsCall(s) => \A c \in Channels :
                (c # subscription[s]) => (chanBuf'[c] = chanBuf[c])]_vars
    /\ [][\A c \in Channels :
            (rx[c] = "dropped") => (rx'[c] = "dropped" /\ chanBuf'[c] = chanBuf[c])]_vars

\* the loop's subscriber was called on its second receiver and cached
\* TimerNotComplete, while the notification sent on the receiver it replaced
\* sits unread on the dropped channel
C18_Witness ==
    /\ loopState = "Polling"
    /\ statusQueries >= 2
    /\ timer_status[loopSub] = TimerNotComplete
    /\ Attached(loopSub)
    /\ \E c \in Channels \ { subscription[loopSub] } :
        /\ rx[c] = "dropped"
        /\ chanBuf[c] = << TimerComplete >>

\* the sender of the receiver s reads was dropped without sending
Disconnected(s) ==
    /\ subscription[s] # None
    /\ ~SenderAlive
    /\ sent[subscription[s]] = 0

\* C19: on a subscriber whose sender was dropped without sending the cached
\* status is TimerNotComplete and every get_timer_status() call returns
\* TimerNotComplete; a loop driven by such a subscriber is never in
\* Exited-TimerComplete, and when it has returned it is in Exited-InvalidInput.
C19_DisconnectIsNotComplete ==
    /\ [](\A s \in Subscribers :
            Disconnected(s)
                => (timer_status[s] = TimerNotComplete /\ lastRet[s] # TimerComplete))
    /\ [][\A s \in Subscribers :
            (IsCall(s) /\ Disconnected(s)) => (lastRet'[s] = TimerNotComplete)]_vars
    /\ []((loopSub \in Subscribers /\ Disconnected(loopSub))
            => (/\ loopState # "Exited-TimerComplete"
                /\ LoopReturned => (loopState = "Exited-InvalidInput")))

\* the timer was dropped unstarted; the loop on a subscriber attached to it
\* polled the hung-up channel at least twice and left on invalid input
C19_Witness ==
    /\ timerState = "dropped"
    /\ loopSub \in Subscribers
    /\ Disconnected(loopSub)
    /\ statusQueries >= 2
    /\ loopState = "Exited-InvalidInput"

\* the loop still owns command_dispatcher: the sender is dropped when
\* run_user_input_loop returns
DispatcherAlive == loopPc \in { "idle", "spawned", "status", "collect" }

\* C20: timed_user_input returns only from a loop that has terminated: at the
\* return and ever after the loop is in a terminal state, a send has been made
\* for every command it collected, its dispatch sender and its raw mode guard
\* are gone, and nothing more is polled, sent or delivered.
C20_ReturnsAfterJoin ==
    /\ [][TimedUserInputReturn
            => (loopState \in Terminal /\ sendCalls = collected /\ ~DispatcherAlive)]_vars
    /\ []((loopPc = "joined")
            => (/\ loopState \in Terminal
                /\ sendCalls = collected
                /\ IsPrefix(dispatched, sendCalls)
                /\ ~DispatcherAlive
                /\ ~rawMode))
    /\ [][(loopPc = "joined")
            => UNCHANGED << loopPc, loopState, statusQueries, polls, collected,
                            sendCalls, dispatched >>]_vars

\* timed_user_input has returned after the timer ended a loop that forwarded
\* MaxCommands commands, all delivered
C20_Witness ==
    /\ loopPc = "joined"
    /\ loopState = "Exited-TimerComplete"
    /\ Len(collected) = MaxCommands
    /\ dispatched = collected

====
